---------------------------- MODULE Spec2Model ----------------------------
(***************************************************************************)
(* A model of the finance news dashboard of src/options.py.                *)
(*                                                                         *)
(* The dashboard is a pipeline of five functions and one render loop:      *)
(*   fetch_google_news   the recency filter and item limit over a feed     *)
(*   analyze_sentiment   the fixed-threshold three-way classifier          *)
(*   detect_ticker       the token regex and the ".NS" candidates          *)
(*   get_fundamentals    the sparse snapshot of ten provider fields        *)
(*   get_stock_chart     the chart image, or None                          *)
(*   the expander body   the candidate loop with its for/else              *)
(*                                                                         *)
(* Each component has a specification of its own (SpecNews, SpecSentiment, *)
(* SpecTicker, SpecFundamentals, SpecPanel); the variables of the others   *)
(* rest at their idle values.  The external collaborators (the feed, the   *)
(* sentiment model, the market-data provider) are inputs: what they return *)
(* is chosen nondeterministically from small sets.                         *)
(*                                                                         *)
(* Python values are represented as follows.                               *)
(*   str                 a TLA+ string; a title, whose characters the      *)
(*                       regex reads one by one, is the sequence of the    *)
(*                       Unicode code points (ord) of its characters       *)
(*   None / a value      <<>> / <<v>>  (an option as a sequence)           *)
(*   dict                a function whose DOMAIN is the set of keys        *)
(*   datetime            an integer number of ticks                        *)
(*   float polarity      an exact fraction [num, den], den > 0             *)
(***************************************************************************)
EXTENDS Integers, Sequences, FiniteSets

VARIABLES
    \* fetch_google_news
    feed,        \* d.entries: the parsed feed, in feed order
    now,         \* datetime.utcnow(), read once before the loop
    days,        \* the days argument
    max_items,   \* the max_items argument
    idx,         \* how many entries of the feed the for loop has consumed
    articles,    \* the articles list
    npc,         \* "idle" | "loop" | "done"
    \* analyze_sentiment
    polarity,    \* blob.sentiment.polarity
    sentiment,   \* the returned (label, cls, polarity), <<>> before the call
    spc,         \* "idle" | "call" | "done"
    \* detect_ticker, and the headline of the expander
    title,       \* the title argument / a['title']
    tickers,     \* the returned candidate list
    tpc,         \* "idle" | "call" | "done"
    \* get_fundamentals
    ticker,      \* the ticker argument
    response,    \* what yf.Ticker(ticker).info does: <<>> raises, <<info>> returns info
    fund,        \* the return value: <<>> is None, <<d>> is the dict d
    fpc,         \* "idle" | "call" | "done"
    \* the expander body of the main render loop
    k,           \* how many candidates the for loop has consumed
    lookups,     \* log of get_fundamentals calls: [ticker, fund]
    charts,      \* log of get_stock_chart calls: [ticker, outcome, chart]
    page,        \* what the expander has rendered, in order
    ppc          \* "idle" | "collapsed" | "loop" | "done"

newsVars   == <<feed, now, days, max_items, idx, articles, npc>>
sentVars   == <<polarity, sentiment, spc>>
tickerVars == <<title, tickers, tpc>>
fundVars   == <<ticker, response, fund, fpc>>
panelVars  == <<k, lookups, charts, page, ppc>>
vars == <<newsVars, sentVars, tickerVars, fundVars, panelVars>>

\* Bounds of the model.
MaxFeed == 3
MaxTick == 4
MaxDays == 2
MaxItems == 3
TicksPerDay == 2
MaxDen == 12
MaxTitleLen == 7

\* ------------------------------------------------------------------------
\* Idle values: a component that a specification does not exercise.

IdleNews ==
    /\ feed = <<>> /\ now = 0 /\ days = 0 /\ max_items = 0
    /\ idx = 0 /\ articles = <<>> /\ npc = "idle"

IdleSentiment ==
    polarity = [num |-> 0, den |-> 1] /\ sentiment = <<>> /\ spc = "idle"

IdleTicker ==
    title = <<>> /\ tickers = <<>> /\ tpc = "idle"

IdleFundamentals ==
    ticker = "" /\ response = <<>> /\ fund = <<>> /\ fpc = "idle"

IdlePanel ==
    k = 0 /\ lookups = <<>> /\ charts = <<>> /\ page = <<>> /\ ppc = "idle"

\* ------------------------------------------------------------------------
\* fetch_google_news (src/options.py:41-61)

RECURSIVE SeqsUpTo(_, _)
\* All sequences over S of length at most n.
SeqsUpTo(S, n) ==
    IF n = 0 THEN {<<>>}
    ELSE LET shorter == SeqsUpTo(S, n - 1)
         IN  shorter \cup {Append(s, x) : s \in {t \in shorter : Len(t) = n - 1}, x \in S}

\* published_parsed of an entry: absent or falsy (<<>>), or a timestamp <<t>>.
PublishTimes == {<<>>} \cup {<<t>> : t \in 0..MaxTick}

\* The feeds: entry i has the link i (links identify entries) and any
\* publish time.
Feeds ==
    {[i \in 1..Len(ps) |-> [link |-> i, published_parsed |-> ps[i]]] :
        ps \in SeqsUpTo(PublishTimes, MaxFeed)}

\* timedelta(days=days), in ticks.
timedelta(d) == d * TicksPerDay

\* cutoff = datetime.utcnow() - timedelta(days=days)
cutoff == now - timedelta(days)

\* pub of an entry (lines 48-50): None unless published_parsed is there and truthy.
pub(e) == IF e.published_parsed # <<>> THEN e.published_parsed ELSE <<>>

Expired_AtCutoff(p, c) == p # <<>> /\ p[1] <= c
Expired_NoTimestamp(p, c) == p = <<>> \/ p[1] < c
\* The test of line 51: `pub and pub < cutoff`.
Expired(p, c) == p # <<>> /\ p[1] < c

\* pub.strftime("%b %d, %Y") if pub else "": the date of the tick, time of
\* day dropped; "" is <<>>.
strftime(p) == IF p # <<>> THEN <<p[1] \div TicksPerDay>> ELSE <<>>

\* The article record of lines 53-58 (title and summary are copied from the
\* entry like link, and are left out).
Article(e) == [link |-> e.link, published |-> strftime(pub(e))]

\* The test of line 59.
LimitReached(as, m) == Len(as) >= m

InitNews ==
    /\ feed \in Feeds
    /\ now = MaxTick
    /\ days \in 0..MaxDays
    /\ max_items \in 0..MaxItems
    /\ idx = 0
    /\ articles = <<>>
    /\ npc = "loop"
    /\ IdleSentiment /\ IdleTicker /\ IdleFundamentals /\ IdlePanel

\* One iteration of the for loop that ends at `continue` (lines 47-52).
NewsSkip ==
    /\ npc = "loop"
    /\ idx < Len(feed)
    /\ Expired(pub(feed[idx + 1]), cutoff)
    /\ idx' = idx + 1
    /\ UNCHANGED <<feed, now, days, max_items, articles, npc>>
    /\ UNCHANGED <<sentVars, tickerVars, fundVars, panelVars>>

\* One iteration of the for loop that appends (lines 47-60), with the
\* break of lines 59-60.
NewsAppend ==
    /\ npc = "loop"
    /\ idx < Len(feed)
    /\ ~Expired(pub(feed[idx + 1]), cutoff)
    /\ articles' = Append(articles, Article(feed[idx + 1]))
    /\ idx' = idx + 1
    /\ npc' = IF LimitReached(articles', max_items) THEN "done" ELSE "loop"
    /\ UNCHANGED <<feed, now, days, max_items>>
    /\ UNCHANGED <<sentVars, tickerVars, fundVars, panelVars>>

\* The loop runs out of entries; return articles (line 61).
NewsReturn ==
    /\ npc = "loop"
    /\ idx = Len(feed)
    /\ npc' = "done"
    /\ UNCHANGED <<feed, now, days, max_items, idx, articles>>
    /\ UNCHANGED <<sentVars, tickerVars, fundVars, panelVars>>

NextNews == NewsSkip \/ NewsAppend \/ NewsReturn

SpecNews == InitNews /\ [][NextNews]_vars

\* The entry at feed position i is in the result.
InResult(i) == \E j \in 1..Len(articles) : articles[j].link = feed[i].link

NoTimestamp(i) == feed[i].published_parsed = <<>>

\* C1: for every feed, days >= 0 and max_items >= 0, the returned list has
\* at most max_items articles.
C1_LengthAtMostMaxItems == Len(articles) <= max_items

\* C6 as stated: an entry with no parseable publish timestamp is always in
\* the returned list, for every feed, days and max_items.
C6_NoTimestampAlwaysIncluded ==
    npc = "done" => \A i \in 1..Len(feed) : NoTimestamp(i) => InResult(i)

\* C6, amended: an entry with no parseable publish timestamp is never
\* dropped by the recency filter; every such entry that the loop has
\* consumed is in the list, so it is absent from the result only when the
\* loop stopped at an earlier entry (the item limit was reached).
C6_NoTimestampNeverFiltered ==
    \A i \in 1..Len(feed) : NoTimestamp(i) => (InResult(i) <=> i <= idx)

\* The fetch is over with days = 0, an entry without timestamp returned and
\* an entry with a timestamp before the cutoff dropped.
C6_Witness ==
    /\ npc = "done"
    /\ days = 0
    /\ \E i \in 1..idx : NoTimestamp(i) /\ InResult(i)
    /\ \E i \in 1..idx : ~NoTimestamp(i) /\ ~InResult(i)

\* An entry passes the recency filter: no timestamp, or one at or after
\* now - days.
Recent(e) ==
    \/ e.published_parsed = <<>>
    \/ e.published_parsed[1] >= now - days * TicksPerDay

RecentPositions == {i \in 1..Len(feed) : Recent(feed[i])}

\* C9: the result is a prefix of the recency-filtered feed: the j-th
\* article is the j-th entry of the feed that is not older than the cutoff
\* (an entry exactly at the cutoff counts as not older), so every returned
\* entry precedes every unfiltered entry that was left out.
C9_PrefixOfFilteredFeed ==
    /\ \A j \in 1..Len(articles) :
          /\ articles[j].link \in RecentPositions
          /\ Cardinality({i \in RecentPositions : i < articles[j].link}) = j - 1
    /\ \A i \in RecentPositions : \A j \in 1..Len(articles) :
          ~InResult(i) => articles[j].link < i

\* The fetch is over, an entry exactly at the cutoff was returned, an older
\* one was dropped, and a recent one was left out on overflow.
C9_Witness ==
    /\ npc = "done"
    /\ \E i \in 1..Len(feed) :
          /\ feed[i].published_parsed = <<cutoff>>
          /\ InResult(i)
    /\ \E i \in 1..Len(feed) : i \notin RecentPositions /\ i < idx
    /\ \E i \in RecentPositions : ~InResult(i)

\* ------------------------------------------------------------------------
\* analyze_sentiment (src/options.py:64-73)

\* The polarities: the fractions num/den of [-1, 1] with den <= MaxDen.
Polarities ==
    {p \in [num : -MaxDen..MaxDen, den : 1..MaxDen] :
        -p.den <= p.num /\ p.num <= p.den}

\* p > n/d and p < n/d for a fraction p and d > 0, by cross-multiplication.
Greater(p, n, d) == p.num * d > n * p.den
Less(p, n, d) == p.num * d < n * p.den

analyze_sentiment_Inclusive(p) ==
    IF ~Less(p, 1, 10) THEN [label |-> "Positive", cls |-> "pos", polarity |-> p]
    ELSE IF ~Greater(p, -1, 10) THEN [label |-> "Negative", cls |-> "neg", polarity |-> p]
    ELSE [label |-> "Neutral", cls |-> "neu", polarity |-> p]
\* Lines 67-73: polarity > 0.1, polarity < -0.1, else.
analyze_sentiment(p) ==
    IF Greater(p, 1, 10) THEN [label |-> "Positive", cls |-> "pos", polarity |-> p]
    ELSE IF Less(p, -1, 10) THEN [label |-> "Negative", cls |-> "neg", polarity |-> p]
    ELSE [label |-> "Neutral", cls |-> "neu", polarity |-> p]

InitSentiment ==
    /\ polarity \in Polarities
    /\ sentiment = <<>>
    /\ spc = "call"
    /\ IdleNews /\ IdleTicker /\ IdleFundamentals /\ IdlePanel

\* The call of line 141, after TextBlob has produced the polarity.
AnalyzeSentiment ==
    /\ spc = "call"
    /\ sentiment' = <<analyze_sentiment(polarity)>>
    /\ spc' = "done"
    /\ UNCHANGED polarity
    /\ UNCHANGED <<newsVars, tickerVars, fundVars, panelVars>>

NextSentiment == AnalyzeSentiment

SpecSentiment == InitSentiment /\ [][NextSentiment]_vars

\* The polarity in tenths lies in the given relation to the threshold:
\* 10 * p compared with +1 and -1.
AboveTenth == 10 * polarity.num > polarity.den
BelowMinusTenth == 10 * polarity.num < -polarity.den

\* C5: Positive/pos when p > 0.1, Negative/neg when p < -0.1, Neutral/neu
\* when -0.1 <= p <= 0.1 (the boundary values included), and the returned
\* polarity is p unchanged.
C5_SentimentThresholds ==
    spc = "done" =>
        LET r == sentiment[1] IN
        /\ r.polarity = polarity
        /\ AboveTenth => r.label = "Positive" /\ r.cls = "pos"
        /\ BelowMinusTenth => r.label = "Negative" /\ r.cls = "neg"
        /\ (~AboveTenth /\ ~BelowMinusTenth) => r.label = "Neutral" /\ r.cls = "neu"
        /\ (10 * polarity.num = polarity.den \/ 10 * polarity.num = -polarity.den)
              => r.label = "Neutral"

\* A polarity of exactly 0.1 has been classified.
C5_Witness ==
    /\ spc = "done"
    /\ polarity = [num |-> 1, den |-> 10]
    /\ sentiment[1].label = "Neutral"

\* ------------------------------------------------------------------------
\* detect_ticker (src/options.py:76-82)

\* The bounds {2,6} of the token regex.
MinTokenLen == 2
MaxTokenLen == 6

\* The printable ASCII characters in code point order: from the space (32)
\* to the underscore (95), and from "a" (97) to the tilde (126). The grave
\* accent (96) is the one a string of a module cannot hold.
AsciiLow ==
    " !\"#$%&'()*+,-./0123456789:;<=>?@ABCDEFGHIJKLMNOPQRSTUVWXYZ[\\]^_"

AsciiHigh == "abcdefghijklmnopqrstuvwxyz{|}~"

\* chr(c) and ord(ch) on these characters.
chr(c) ==
    IF c <= 95 THEN SubSeq(AsciiLow, c - 31, c - 31)
    ELSE SubSeq(AsciiHigh, c - 96, c - 96)

ord(ch) == CHOOSE c \in (32..95) \cup (97..126) : chr(c) = ch

\* [A-Z]
UpperChars == ord("A")..ord("Z")

\* The characters \w matches, as ranges <<first, last>> of code points. The
\* pattern of line 78 is a str pattern, so \w and \b follow Unicode: every
\* alphanumeric character of any script (str.isalnum) and the underscore,
\* over the whole code space up to U+10FFFF (Unicode 14.0, the database of
\* Python 3.11).
WordRanges ==
    {<<48, 57>>, <<65, 90>>, <<95, 95>>, <<97, 122>>, <<170, 170>>,
     <<178, 179>>, <<181, 181>>, <<185, 186>>, <<188, 190>>, <<192, 214>>,
     <<216, 246>>, <<248, 705>>, <<710, 721>>, <<736, 740>>, <<748, 748>>,
     <<750, 750>>, <<880, 884>>, <<886, 887>>, <<890, 893>>, <<895, 895>>,
     <<902, 902>>, <<904, 906>>, <<908, 908>>, <<910, 929>>, <<931, 1013>>,
     <<1015, 1153>>, <<1162, 1327>>, <<1329, 1366>>, <<1369, 1369>>, <<1376, 1416>>,
     <<1488, 1514>>, <<1519, 1522>>, <<1568, 1610>>, <<1632, 1641>>, <<1646, 1647>>,
     <<1649, 1747>>, <<1749, 1749>>, <<1765, 1766>>, <<1774, 1788>>, <<1791, 1791>>,
     <<1808, 1808>>, <<1810, 1839>>, <<1869, 1957>>, <<1969, 1969>>, <<1984, 2026>>,
     <<2036, 2037>>, <<2042, 2042>>, <<2048, 2069>>, <<2074, 2074>>, <<2084, 2084>>,
     <<2088, 2088>>, <<2112, 2136>>, <<2144, 2154>>, <<2160, 2183>>, <<2185, 2190>>,
     <<2208, 2249>>, <<2308, 2361>>, <<2365, 2365>>, <<2384, 2384>>, <<2392, 2401>>,
     <<2406, 2415>>, <<2417, 2432>>, <<2437, 2444>>, <<2447, 2448>>, <<2451, 2472>>,
     <<2474, 2480>>, <<2482, 2482>>, <<2486, 2489>>, <<2493, 2493>>, <<2510, 2510>>,
     <<2524, 2525>>, <<2527, 2529>>, <<2534, 2545>>, <<2548, 2553>>, <<2556, 2556>>,
     <<2565, 2570>>, <<2575, 2576>>, <<2579, 2600>>, <<2602, 2608>>, <<2610, 2611>>,
     <<2613, 2614>>, <<2616, 2617>>, <<2649, 2652>>, <<2654, 2654>>, <<2662, 2671>>,
     <<2674, 2676>>, <<2693, 2701>>, <<2703, 2705>>, <<2707, 2728>>, <<2730, 2736>>,
     <<2738, 2739>>, <<2741, 2745>>, <<2749, 2749>>, <<2768, 2768>>, <<2784, 2785>>,
     <<2790, 2799>>, <<2809, 2809>>, <<2821, 2828>>, <<2831, 2832>>, <<2835, 2856>>,
     <<2858, 2864>>, <<2866, 2867>>, <<2869, 2873>>, <<2877, 2877>>, <<2908, 2909>>,
     <<2911, 2913>>, <<2918, 2927>>, <<2929, 2935>>, <<2947, 2947>>, <<2949, 2954>>,
     <<2958, 2960>>, <<2962, 2965>>, <<2969, 2970>>, <<2972, 2972>>, <<2974, 2975>>,
     <<2979, 2980>>, <<2984, 2986>>, <<2990, 3001>>, <<3024, 3024>>, <<3046, 3058>>,
     <<3077, 3084>>, <<3086, 3088>>, <<3090, 3112>>, <<3114, 3129>>, <<3133, 3133>>,
     <<3160, 3162>>, <<3165, 3165>>, <<3168, 3169>>, <<3174, 3183>>, <<3192, 3198>>,
     <<3200, 3200>>, <<3205, 3212>>, <<3214, 3216>>, <<3218, 3240>>, <<3242, 3251>>,
     <<3253, 3257>>, <<3261, 3261>>, <<3293, 3294>>, <<3296, 3297>>, <<3302, 3311>>,
     <<3313, 3314>>, <<3332, 3340>>, <<3342, 3344>>, <<3346, 3386>>, <<3389, 3389>>,
     <<3406, 3406>>, <<3412, 3414>>, <<3416, 3425>>, <<3430, 3448>>, <<3450, 3455>>,
     <<3461, 3478>>, <<3482, 3505>>, <<3507, 3515>>, <<3517, 3517>>, <<3520, 3526>>,
     <<3558, 3567>>, <<3585, 3632>>, <<3634, 3635>>, <<3648, 3654>>, <<3664, 3673>>,
     <<3713, 3714>>, <<3716, 3716>>, <<3718, 3722>>, <<3724, 3747>>, <<3749, 3749>>,
     <<3751, 3760>>, <<3762, 3763>>, <<3773, 3773>>, <<3776, 3780>>, <<3782, 3782>>,
     <<3792, 3801>>, <<3804, 3807>>, <<3840, 3840>>, <<3872, 3891>>, <<3904, 3911>>,
     <<3913, 3948>>, <<3976, 3980>>, <<4096, 4138>>, <<4159, 4169>>, <<4176, 4181>>,
     <<4186, 4189>>, <<4193, 4193>>, <<4197, 4198>>, <<4206, 4208>>, <<4213, 4225>>,
     <<4238, 4238>>, <<4240, 4249>>, <<4256, 4293>>, <<4295, 4295>>, <<4301, 4301>>,
     <<4304, 4346>>, <<4348, 4680>>, <<4682, 4685>>, <<4688, 4694>>, <<4696, 4696>>,
     <<4698, 4701>>, <<4704, 4744>>, <<4746, 4749>>, <<4752, 4784>>, <<4786, 4789>>,
     <<4792, 4798>>, <<4800, 4800>>, <<4802, 4805>>, <<4808, 4822>>, <<4824, 4880>>,
     <<4882, 4885>>, <<4888, 4954>>, <<4969, 4988>>, <<4992, 5007>>, <<5024, 5109>>,
     <<5112, 5117>>, <<5121, 5740>>, <<5743, 5759>>, <<5761, 5786>>, <<5792, 5866>>,
     <<5870, 5880>>, <<5888, 5905>>, <<5919, 5937>>, <<5952, 5969>>, <<5984, 5996>>,
     <<5998, 6000>>, <<6016, 6067>>, <<6103, 6103>>, <<6108, 6108>>, <<6112, 6121>>,
     <<6128, 6137>>, <<6160, 6169>>, <<6176, 6264>>, <<6272, 6276>>, <<6279, 6312>>,
     <<6314, 6314>>, <<6320, 6389>>, <<6400, 6430>>, <<6470, 6509>>, <<6512, 6516>>,
     <<6528, 6571>>, <<6576, 6601>>, <<6608, 6618>>, <<6656, 6678>>, <<6688, 6740>>,
     <<6784, 6793>>, <<6800, 6809>>, <<6823, 6823>>, <<6917, 6963>>, <<6981, 6988>>,
     <<6992, 7001>>, <<7043, 7072>>, <<7086, 7141>>, <<7168, 7203>>, <<7232, 7241>>,
     <<7245, 7293>>, <<7296, 7304>>, <<7312, 7354>>, <<7357, 7359>>, <<7401, 7404>>,
     <<7406, 7411>>, <<7413, 7414>>, <<7418, 7418>>, <<7424, 7615>>, <<7680, 7957>>,
     <<7960, 7965>>, <<7968, 8005>>, <<8008, 8013>>, <<8016, 8023>>, <<8025, 8025>>,
     <<8027, 8027>>, <<8029, 8029>>, <<8031, 8061>>, <<8064, 8116>>, <<8118, 8124>>,
     <<8126, 8126>>, <<8130, 8132>>, <<8134, 8140>>, <<8144, 8147>>, <<8150, 8155>>,
     <<8160, 8172>>, <<8178, 8180>>, <<8182, 8188>>, <<8304, 8305>>, <<8308, 8313>>,
     <<8319, 8329>>, <<8336, 8348>>, <<8450, 8450>>, <<8455, 8455>>, <<8458, 8467>>,
     <<8469, 8469>>, <<8473, 8477>>, <<8484, 8484>>, <<8486, 8486>>, <<8488, 8488>>,
     <<8490, 8493>>, <<8495, 8505>>, <<8508, 8511>>, <<8517, 8521>>, <<8526, 8526>>,
     <<8528, 8585>>, <<9312, 9371>>, <<9450, 9471>>, <<10102, 10131>>, <<11264, 11492>>,
     <<11499, 11502>>, <<11506, 11507>>, <<11517, 11517>>, <<11520, 11557>>, <<11559, 11559>>,
     <<11565, 11565>>, <<11568, 11623>>, <<11631, 11631>>, <<11648, 11670>>, <<11680, 11686>>,
     <<11688, 11694>>, <<11696, 11702>>, <<11704, 11710>>, <<11712, 11718>>, <<11720, 11726>>,
     <<11728, 11734>>, <<11736, 11742>>, <<11823, 11823>>, <<12293, 12295>>, <<12321, 12329>>,
     <<12337, 12341>>, <<12344, 12348>>, <<12353, 12438>>, <<12445, 12447>>, <<12449, 12538>>,
     <<12540, 12543>>, <<12549, 12591>>, <<12593, 12686>>, <<12690, 12693>>, <<12704, 12735>>,
     <<12784, 12799>>, <<12832, 12841>>, <<12872, 12879>>, <<12881, 12895>>, <<12928, 12937>>,
     <<12977, 12991>>, <<13312, 19903>>, <<19968, 42124>>, <<42192, 42237>>, <<42240, 42508>>,
     <<42512, 42539>>, <<42560, 42606>>, <<42623, 42653>>, <<42656, 42735>>, <<42775, 42783>>,
     <<42786, 42888>>, <<42891, 42954>>, <<42960, 42961>>, <<42963, 42963>>, <<42965, 42969>>,
     <<42994, 43009>>, <<43011, 43013>>, <<43015, 43018>>, <<43020, 43042>>, <<43056, 43061>>,
     <<43072, 43123>>, <<43138, 43187>>, <<43216, 43225>>, <<43250, 43255>>, <<43259, 43259>>,
     <<43261, 43262>>, <<43264, 43301>>, <<43312, 43334>>, <<43360, 43388>>, <<43396, 43442>>,
     <<43471, 43481>>, <<43488, 43492>>, <<43494, 43518>>, <<43520, 43560>>, <<43584, 43586>>,
     <<43588, 43595>>, <<43600, 43609>>, <<43616, 43638>>, <<43642, 43642>>, <<43646, 43695>>,
     <<43697, 43697>>, <<43701, 43702>>, <<43705, 43709>>, <<43712, 43712>>, <<43714, 43714>>,
     <<43739, 43741>>, <<43744, 43754>>, <<43762, 43764>>, <<43777, 43782>>, <<43785, 43790>>,
     <<43793, 43798>>, <<43808, 43814>>, <<43816, 43822>>, <<43824, 43866>>, <<43868, 43881>>,
     <<43888, 44002>>, <<44016, 44025>>, <<44032, 55203>>, <<55216, 55238>>, <<55243, 55291>>,
     <<63744, 64109>>, <<64112, 64217>>, <<64256, 64262>>, <<64275, 64279>>, <<64285, 64285>>,
     <<64287, 64296>>, <<64298, 64310>>, <<64312, 64316>>, <<64318, 64318>>, <<64320, 64321>>,
     <<64323, 64324>>, <<64326, 64433>>, <<64467, 64829>>, <<64848, 64911>>, <<64914, 64967>>,
     <<65008, 65019>>, <<65136, 65140>>, <<65142, 65276>>, <<65296, 65305>>, <<65313, 65338>>,
     <<65345, 65370>>, <<65382, 65470>>, <<65474, 65479>>, <<65482, 65487>>, <<65490, 65495>>,
     <<65498, 65500>>, <<65536, 65547>>, <<65549, 65574>>, <<65576, 65594>>, <<65596, 65597>>,
     <<65599, 65613>>, <<65616, 65629>>, <<65664, 65786>>, <<65799, 65843>>, <<65856, 65912>>,
     <<65930, 65931>>, <<66176, 66204>>, <<66208, 66256>>, <<66273, 66299>>, <<66304, 66339>>,
     <<66349, 66378>>, <<66384, 66421>>, <<66432, 66461>>, <<66464, 66499>>, <<66504, 66511>>,
     <<66513, 66517>>, <<66560, 66717>>, <<66720, 66729>>, <<66736, 66771>>, <<66776, 66811>>,
     <<66816, 66855>>, <<66864, 66915>>, <<66928, 66938>>, <<66940, 66954>>, <<66956, 66962>>,
     <<66964, 66965>>, <<66967, 66977>>, <<66979, 66993>>, <<66995, 67001>>, <<67003, 67004>>,
     <<67072, 67382>>, <<67392, 67413>>, <<67424, 67431>>, <<67456, 67461>>, <<67463, 67504>>,
     <<67506, 67514>>, <<67584, 67589>>, <<67592, 67592>>, <<67594, 67637>>, <<67639, 67640>>,
     <<67644, 67644>>, <<67647, 67669>>, <<67672, 67702>>, <<67705, 67742>>, <<67751, 67759>>,
     <<67808, 67826>>, <<67828, 67829>>, <<67835, 67867>>, <<67872, 67897>>, <<67968, 68023>>,
     <<68028, 68047>>, <<68050, 68096>>, <<68112, 68115>>, <<68117, 68119>>, <<68121, 68149>>,
     <<68160, 68168>>, <<68192, 68222>>, <<68224, 68255>>, <<68288, 68295>>, <<68297, 68324>>,
     <<68331, 68335>>, <<68352, 68405>>, <<68416, 68437>>, <<68440, 68466>>, <<68472, 68497>>,
     <<68521, 68527>>, <<68608, 68680>>, <<68736, 68786>>, <<68800, 68850>>, <<68858, 68899>>,
     <<68912, 68921>>, <<69216, 69246>>, <<69248, 69289>>, <<69296, 69297>>, <<69376, 69415>>,
     <<69424, 69445>>, <<69457, 69460>>, <<69488, 69505>>, <<69552, 69579>>, <<69600, 69622>>,
     <<69635, 69687>>, <<69714, 69743>>, <<69745, 69746>>, <<69749, 69749>>, <<69763, 69807>>,
     <<69840, 69864>>, <<69872, 69881>>, <<69891, 69926>>, <<69942, 69951>>, <<69956, 69956>>,
     <<69959, 69959>>, <<69968, 70002>>, <<70006, 70006>>, <<70019, 70066>>, <<70081, 70084>>,
     <<70096, 70106>>, <<70108, 70108>>, <<70113, 70132>>, <<70144, 70161>>, <<70163, 70187>>,
     <<70272, 70278>>, <<70280, 70280>>, <<70282, 70285>>, <<70287, 70301>>, <<70303, 70312>>,
     <<70320, 70366>>, <<70384, 70393>>, <<70405, 70412>>, <<70415, 70416>>, <<70419, 70440>>,
     <<70442, 70448>>, <<70450, 70451>>, <<70453, 70457>>, <<70461, 70461>>, <<70480, 70480>>,
     <<70493, 70497>>, <<70656, 70708>>, <<70727, 70730>>, <<70736, 70745>>, <<70751, 70753>>,
     <<70784, 70831>>, <<70852, 70853>>, <<70855, 70855>>, <<70864, 70873>>, <<71040, 71086>>,
     <<71128, 71131>>, <<71168, 71215>>, <<71236, 71236>>, <<71248, 71257>>, <<71296, 71338>>,
     <<71352, 71352>>, <<71360, 71369>>, <<71424, 71450>>, <<71472, 71483>>, <<71488, 71494>>,
     <<71680, 71723>>, <<71840, 71922>>, <<71935, 71942>>, <<71945, 71945>>, <<71948, 71955>>,
     <<71957, 71958>>, <<71960, 71983>>, <<71999, 71999>>, <<72001, 72001>>, <<72016, 72025>>,
     <<72096, 72103>>, <<72106, 72144>>, <<72161, 72161>>, <<72163, 72163>>, <<72192, 72192>>,
     <<72203, 72242>>, <<72250, 72250>>, <<72272, 72272>>, <<72284, 72329>>, <<72349, 72349>>,
     <<72368, 72440>>, <<72704, 72712>>, <<72714, 72750>>, <<72768, 72768>>, <<72784, 72812>>,
     <<72818, 72847>>, <<72960, 72966>>, <<72968, 72969>>, <<72971, 73008>>, <<73030, 73030>>,
     <<73040, 73049>>, <<73056, 73061>>, <<73063, 73064>>, <<73066, 73097>>, <<73112, 73112>>,
     <<73120, 73129>>, <<73440, 73458>>, <<73648, 73648>>, <<73664, 73684>>, <<73728, 74649>>,
     <<74752, 74862>>, <<74880, 75075>>, <<77712, 77808>>, <<77824, 78894>>, <<82944, 83526>>,
     <<92160, 92728>>, <<92736, 92766>>, <<92768, 92777>>, <<92784, 92862>>, <<92864, 92873>>,
     <<92880, 92909>>, <<92928, 92975>>, <<92992, 92995>>, <<93008, 93017>>, <<93019, 93025>>,
     <<93027, 93047>>, <<93053, 93071>>, <<93760, 93846>>, <<93952, 94026>>, <<94032, 94032>>,
     <<94099, 94111>>, <<94176, 94177>>, <<94179, 94179>>, <<94208, 100343>>, <<100352, 101589>>,
     <<101632, 101640>>, <<110576, 110579>>, <<110581, 110587>>, <<110589, 110590>>, <<110592, 110882>>,
     <<110928, 110930>>, <<110948, 110951>>, <<110960, 111355>>, <<113664, 113770>>, <<113776, 113788>>,
     <<113792, 113800>>, <<113808, 113817>>, <<119520, 119539>>, <<119648, 119672>>, <<119808, 119892>>,
     <<119894, 119964>>, <<119966, 119967>>, <<119970, 119970>>, <<119973, 119974>>, <<119977, 119980>>,
     <<119982, 119993>>, <<119995, 119995>>, <<119997, 120003>>, <<120005, 120069>>, <<120071, 120074>>,
     <<120077, 120084>>, <<120086, 120092>>, <<120094, 120121>>, <<120123, 120126>>, <<120128, 120132>>,
     <<120134, 120134>>, <<120138, 120144>>, <<120146, 120485>>, <<120488, 120512>>, <<120514, 120538>>,
     <<120540, 120570>>, <<120572, 120596>>, <<120598, 120628>>, <<120630, 120654>>, <<120656, 120686>>,
     <<120688, 120712>>, <<120714, 120744>>, <<120746, 120770>>, <<120772, 120779>>, <<120782, 120831>>,
     <<122624, 122654>>, <<123136, 123180>>, <<123191, 123197>>, <<123200, 123209>>, <<123214, 123214>>,
     <<123536, 123565>>, <<123584, 123627>>, <<123632, 123641>>, <<124896, 124902>>, <<124904, 124907>>,
     <<124909, 124910>>, <<124912, 124926>>, <<124928, 125124>>, <<125127, 125135>>, <<125184, 125251>>,
     <<125259, 125259>>, <<125264, 125273>>, <<126065, 126123>>, <<126125, 126127>>, <<126129, 126132>>,
     <<126209, 126253>>, <<126255, 126269>>, <<126464, 126467>>, <<126469, 126495>>, <<126497, 126498>>,
     <<126500, 126500>>, <<126503, 126503>>, <<126505, 126514>>, <<126516, 126519>>, <<126521, 126521>>,
     <<126523, 126523>>, <<126530, 126530>>, <<126535, 126535>>, <<126537, 126537>>, <<126539, 126539>>,
     <<126541, 126543>>, <<126545, 126546>>, <<126548, 126548>>, <<126551, 126551>>, <<126553, 126553>>,
     <<126555, 126555>>, <<126557, 126557>>, <<126559, 126559>>, <<126561, 126562>>, <<126564, 126564>>,
     <<126567, 126570>>, <<126572, 126578>>, <<126580, 126583>>, <<126585, 126588>>, <<126590, 126590>>,
     <<126592, 126601>>, <<126603, 126619>>, <<126625, 126627>>, <<126629, 126633>>, <<126635, 126651>>,
     <<127232, 127244>>, <<130032, 130041>>, <<131072, 173791>>, <<173824, 177976>>, <<177984, 178205>>,
     <<178208, 183969>>, <<183984, 191456>>, <<194560, 195101>>, <<196608, 201546>>}

WordChars == UNION {r[1]..r[2] : r \in WordRanges}

\* The code points of the characters of a printable ASCII string.
Chars(str) == [i \in 1..Len(str) |-> ord(SubSeq(str, i, i))]

RECURSIVE Join(_)
\* The str of a sequence of code points (of a matched token, which [A-Z]
\* keeps within ASCII).
Join(cs) == IF cs = <<>> THEN "" ELSE chr(Head(cs)) \o Join(Tail(cs))

\* ord(s[i]), 1-based; -1 outside the title.
CharAt(s, i) == IF i >= 1 /\ i <= Len(s) THEN s[i] ELSE -1

\* \b at offset p of s (between s[p] and s[p+1]): exactly one side is a
\* word character; the outside of the string counts as not one.
WordBoundary(s, p) == (CharAt(s, p) \in WordChars) # (CharAt(s, p + 1) \in WordChars)

MatchLengths_NoTrailingBoundary(s, p) ==
    {n \in MinTokenLen..MaxTokenLen :
        /\ WordBoundary(s, p)
        /\ \A j \in 1..n : CharAt(s, p + j) \in UpperChars}
\* The lengths n for which \b[A-Z]{n}\b matches at offset p of s, n within
\* the regex's bounds.
MatchLengths(s, p) ==
    {n \in MinTokenLen..MaxTokenLen :
        /\ WordBoundary(s, p)
        /\ \A j \in 1..n : CharAt(s, p + j) \in UpperChars
        /\ WordBoundary(s, p + n)}

Maximum(S) == CHOOSE x \in S : \A y \in S : y <= x

RECURSIVE Scan(_, _)
\* re.findall from offset p on: the leftmost match, the longest the greedy
\* quantifier finds there, then on from its end.
Scan(s, p) ==
    IF p >= Len(s) THEN <<>>
    ELSE LET ns == MatchLengths(s, p) IN
         IF ns = {} THEN Scan(s, p + 1)
         ELSE <<Join(SubSeq(s, p + 1, p + Maximum(ns)))>> \o Scan(s, p + Maximum(ns))

\* re.findall(r'\b[A-Z]{2,6}\b', title)
findall(s) == Scan(s, 0)

RECURSIVE Candidates(_)
\* The loop of lines 79-81 over the tokens.
Candidates(tokens) ==
    IF tokens = <<>> THEN <<>>
    ELSE <<Head(tokens), Head(tokens) \o ".NS">> \o Candidates(Tail(tokens))

detect_ticker(t) == Candidates(findall(t))

\* The headline of the end-to-end scenario A.
Headline ==
    Chars("RELIANCE shares surge on strong quarterly results, IPO plans in focus")

\* The characters the generated titles are made of: two capitals, a word
\* character that is no capital, a word character that is not ASCII
\* (U+00C9, E with acute), and a character that is no word character.
TitleChars == {ord("A"), ord("B"), ord("a"), 201, ord(" ")}

\* Titles with characters beyond U+00FF next to a run of capitals. Word
\* characters: U+03A9 (Greek Omega), U+0915 (Devanagari Ka), U+4E2D (a CJK
\* ideograph), U+1D400 (mathematical bold A). No word characters: U+093E
\* (the Devanagari vowel sign Aa, a combining mark), U+2014 (the em dash),
\* U+20AC (the euro sign), U+2019 (the right single quotation mark).
UnicodeTitles ==
    {<<937>> \o Chars("AB"),
     Chars("TCS") \o <<2325, 2366>>,
     Chars("AB") \o <<20013>>,
     Chars("AB") \o <<119808>> \o Chars(" CD"),
     Chars("AB") \o <<2366>> \o Chars("CD"),
     Chars("AB") \o <<8212>> \o Chars("CD"),
     Chars("AB") \o <<8364>> \o Chars("CD"),
     Chars("TCS") \o <<8217>> \o Chars("s Q") \o <<8217>> \o Chars("AB")}

Titles == SeqsUpTo(TitleChars, MaxTitleLen) \cup {Headline} \cup UnicodeTitles

InitTicker ==
    /\ title \in Titles
    /\ tickers = <<>>
    /\ tpc = "call"
    /\ IdleNews /\ IdleSentiment /\ IdleFundamentals /\ IdlePanel

DetectTicker ==
    /\ tpc = "call"
    /\ tickers' = detect_ticker(title)
    /\ tpc' = "done"
    /\ UNCHANGED title
    /\ UNCHANGED <<newsVars, sentVars, fundVars, panelVars>>

NextTicker == DetectTicker

SpecTicker == InitTicker /\ [][NextTicker]_vars

\* C3: for the headline of scenario A the candidates are RELIANCE,
\* RELIANCE.NS, IPO, IPO.NS, in this order, so that RELIANCE is tried first.
C3_HeadlineCandidates ==
    (tpc = "done" /\ title = Headline) =>
        tickers = <<"RELIANCE", "RELIANCE.NS", "IPO", "IPO.NS">>

\* The words of a title: position i starts a word when s[i] is a word
\* character and s[i-1] is not; the word runs to the last word character
\* before the next one that is none.
WordStarts(s) ==
    {i \in 1..Len(s) : CharAt(s, i) \in WordChars /\ CharAt(s, i - 1) \notin WordChars}

WordEnd(s, i) ==
    CHOOSE j \in i..Len(s) :
        /\ \A m \in i..j : CharAt(s, m) \in WordChars
        /\ CharAt(s, j + 1) \notin WordChars

\* A word that is a run of 2 to 6 capitals and nothing else.
IsTokenWord(s, i) ==
    /\ i \in WordStarts(s)
    /\ \A m \in i..WordEnd(s, i) : CharAt(s, m) \in UpperChars
    /\ WordEnd(s, i) - i + 1 >= 2
    /\ WordEnd(s, i) - i + 1 <= 6

RECURSIVE TokenWordsFrom(_, _)
\* The token words of s that start at position i or later, left to right.
TokenWordsFrom(s, i) ==
    IF i > Len(s) THEN <<>>
    ELSE IF IsTokenWord(s, i)
         THEN <<Join(SubSeq(s, i, WordEnd(s, i)))>> \o TokenWordsFrom(s, i + 1)
         ELSE TokenWordsFrom(s, i + 1)

\* C4: the output is twice as long as the sequence of word-bounded runs of
\* 2 to 6 capitals of the title (a run next to any word character, ASCII
\* or not, is not word-bounded), and for the i-th of them (from 0) output[2i]
\* is the token and output[2i+1] the token followed by ".NS".
C4_TwoCandidatesPerToken ==
    tpc = "done" =>
        LET toks == TokenWordsFrom(title, 1) IN
        /\ Len(tickers) = 2 * Len(toks)
        /\ \A i \in 1..Len(toks) :
              /\ tickers[2 * i - 1] = toks[i]
              /\ tickers[2 * i] = toks[i] \o ".NS"

\* A title with a repeated token has been through detect_ticker.
C4_Witness ==
    /\ tpc = "done"
    /\ title = Chars("AB a AB")
    /\ tickers = <<"AB", "AB.NS", "AB", "AB.NS">>

\* ------------------------------------------------------------------------
\* get_fundamentals (src/options.py:84-102)

\* The display names of the snapshot, in the order of lines 89-98.
DisplayNames ==
    {"Company", "Sector", "Industry", "Market Cap", "Current Price",
     "PE Ratio", "PB Ratio", "Dividend Yield", "52W High", "52W Low"}

\* The provider field each display name is read from.
ProviderField ==
    [name \in DisplayNames |->
        CASE name = "Company" -> "longName"
          [] name = "Sector" -> "sector"
          [] name = "Industry" -> "industry"
          [] name = "Market Cap" -> "marketCap"
          [] name = "Current Price" -> "currentPrice"
          [] name = "PE Ratio" -> "trailingPE"
          [] name = "PB Ratio" -> "priceToBook"
          [] name = "Dividend Yield" -> "dividendYield"
          [] name = "52W High" -> "fiftyTwoWeekHigh"
          [] name = "52W Low" -> "fiftyTwoWeekLow"]

ProviderFields == {ProviderField[name] : name \in DisplayNames}

\* dict.get(key, default) on a dict whose values are options (<<>> is a
\* stored None); the default is an option too.
Get(d, key, default) == IF key \in DOMAIN d THEN d[key] ELSE default

\* The fund dict of lines 88-99, its values as options.
RawFund(t, info) ==
    [name \in DisplayNames |->
        IF name = "Company"
        THEN Get(info, "longName", <<t>>)
        ELSE Get(info, ProviderField[name], <<>>)]

\* get_fundamentals(ticker), given what the provider does for the ticker:
\* r = <<>> when anything in the try block raises (the provider call, or
\* info.get on an info that is no dict), r = <<info>> when tk.info is info.
get_fundamentals(t, r) ==
    IF r = <<>> THEN <<>>
    ELSE LET raw == RawFund(t, r[1]) IN
         <<[name \in {n \in DisplayNames : raw[n] # <<>>} |-> raw[name][1]]>>

\* The info records: any subset of the ten fields present, each present
\* field null (<<>>) or set (<<"v">>).
Infos == UNION {[D -> {<<>>, <<"v">>}] : D \in SUBSET ProviderFields}

FundTickers == {"INFY", "IPO.NS"}

InitFundamentals ==
    /\ ticker \in FundTickers
    /\ response \in {<<>>} \cup {<<info>> : info \in Infos}
    /\ fund = <<>>
    /\ fpc = "call"
    /\ IdleNews /\ IdleSentiment /\ IdleTicker /\ IdlePanel

GetFundamentals ==
    /\ fpc = "call"
    /\ fund' = get_fundamentals(ticker, response)
    /\ fpc' = "done"
    /\ UNCHANGED <<ticker, response>>
    /\ UNCHANGED <<newsVars, sentVars, tickerVars, panelVars>>

NextFundamentals == GetFundamentals

SpecFundamentals == InitFundamentals /\ [][NextFundamentals]_vars

\* The provider's record has the field behind a display name, and not null.
ProviderHas(name) ==
    /\ name \in DisplayNames
    /\ ProviderField[name] \in DOMAIN response[1]
    /\ response[1][ProviderField[name]] # <<>>

\* C2 as stated: the snapshot has no key whose provider field was null or
\* missing, and no key outside the ten display names.
C2_OnlyProvidedKeys ==
    (fpc = "done" /\ fund # <<>>) =>
        \A key \in DOMAIN fund[1] : key \in DisplayNames /\ ProviderHas(key)

\* ------------------------------------------------------------------------
\* get_stock_chart (src/options.py:105-120)

\* What happens inside the try block: yf.download raises, the frame is
\* empty, plotting or saving raises, or the chart is drawn.
ChartOutcomes == {"download_raises", "empty", "render_raises", "prices"}

get_stock_chart_NoEmptyCheck(t, o) ==
    IF o \in {"prices", "empty"} THEN <<[png |-> t]>> ELSE <<>>
\* get_stock_chart(ticker): <<>> is None, <<buf>> the PNG buffer.
get_stock_chart(t, o) ==
    IF o = "prices" THEN <<[png |-> t]>> ELSE <<>>

\* ------------------------------------------------------------------------
\* The expander body of the main render loop (src/options.py:147-162)

\* `if fund:` (line 151): neither None nor an empty dict.
Truthy(f) == f # <<>> /\ DOMAIN f[1] # {}

\* fund.get('Company', '') of line 152.
CompanyOf(d) == IF "Company" \in DOMAIN d THEN d["Company"] ELSE ""

NoTickerMessage == "No valid ticker found in this headline."

\* What lines 152-159 render for a snapshot d and a chart c: the header,
\* the table inside the fund-card markup, and the image when there is one.
Rendered(d, c) ==
    <<[kind |-> "header", body |-> CompanyOf(d)],
      [kind |-> "markup", body |-> "<div class='fund-card'>"],
      [kind |-> "table", body |-> d],
      [kind |-> "markup", body |-> "</div>"]>>
    \o (IF c # <<>> THEN <<[kind |-> "image", body |-> c[1]]>> ELSE <<>>)

\* The headlines whose panel is expanded.
PanelTitles ==
    {Headline, Chars("Markets end flat"), Chars("INFY and TCS rally"),
     Chars("CEO"), Chars("AB a AB"), Chars("NESTL") \o <<201>> \o Chars(" up")}
    \cup UnicodeTitles

\* What the provider answers to a lookup in the panel: it raises, or it
\* returns one of these records.
PanelInfos ==
    UNION {[D -> {<<>>, <<"v">>}] : D \in SUBSET {"longName", "sector"}}

PanelResponses == {<<>>} \cup {<<info>> : info \in PanelInfos}

InitPanel ==
    /\ title \in PanelTitles
    /\ tickers = <<>>
    /\ tpc = "idle"
    /\ k = 0
    /\ lookups = <<>>
    /\ charts = <<>>
    /\ page = <<>>
    /\ ppc = "collapsed"
    /\ IdleNews /\ IdleSentiment /\ IdleFundamentals

\* The user expands the panel: line 148.
PanelExpand ==
    /\ ppc = "collapsed"
    /\ tickers' = detect_ticker(title)
    /\ ppc' = "loop"
    /\ UNCHANGED <<title, tpc, k, lookups, charts, page>>
    /\ UNCHANGED <<newsVars, sentVars, fundVars>>

\* One iteration of the for loop whose lookup gives nothing (lines 149-151).
PanelLookupFail ==
    /\ ppc = "loop"
    /\ k < Len(tickers)
    /\ \E r \in PanelResponses :
          LET t == tickers[k + 1]
              f == get_fundamentals(t, r)
          IN  /\ ~Truthy(f)
              /\ lookups' = Append(lookups, [ticker |-> t, fund |-> f])
    /\ k' = k + 1
    /\ UNCHANGED <<charts, page, ppc>>
    /\ UNCHANGED <<newsVars, sentVars, tickerVars, fundVars>>

\* One iteration of the for loop whose lookup gives a snapshot: header,
\* table, chart call, image if there is a chart (lines 149-159), and then
\* the loop goes to `after`.
LookupSuccess(after) ==
    /\ ppc = "loop"
    /\ k < Len(tickers)
    /\ \E r \in PanelResponses, o \in ChartOutcomes :
          LET t == tickers[k + 1]
              f == get_fundamentals(t, r)
              c == get_stock_chart(t, o)
          IN  /\ Truthy(f)
              /\ lookups' = Append(lookups, [ticker |-> t, fund |-> f])
              /\ charts' = Append(charts, [ticker |-> t, outcome |-> o, chart |-> c])
              /\ page' = page \o Rendered(f[1], c)
    /\ k' = k + 1
    /\ ppc' = after
    /\ UNCHANGED <<newsVars, sentVars, tickerVars, fundVars>>

PanelLookupSuccess_NoBreak == LookupSuccess("loop")
\* The iteration ends with the break of line 160.
PanelLookupSuccess == LookupSuccess("done")

\* The loop ends without a break and shows `notice` (lines 161-162).
LoopExhausted(notice) ==
    /\ ppc = "loop"
    /\ k = Len(tickers)
    /\ page' = page \o notice
    /\ ppc' = "done"
    /\ UNCHANGED <<k, lookups, charts>>
    /\ UNCHANGED <<newsVars, sentVars, tickerVars, fundVars>>

PanelNoTicker_OnlyAfterLookups ==
    LoopExhausted(IF lookups = <<>> THEN <<>>
                  ELSE <<[kind |-> "info", body |-> NoTickerMessage]>>)
\* The else branch of the for loop: st.info.
PanelNoTicker == LoopExhausted(<<[kind |-> "info", body |-> NoTickerMessage]>>)

NextPanel == PanelExpand \/ PanelLookupFail \/ PanelLookupSuccess \/ PanelNoTicker

SpecPanel == InitPanel /\ [][NextPanel]_vars

\* A lookup succeeded: it returned a snapshot that is not empty.
Succeeded(f) == f # <<>> /\ DOMAIN f[1] # {}

LastLookup == lookups[Len(lookups)]

Tables == {i \in 1..Len(page) : page[i].kind = "table"}
Images == {i \in 1..Len(page) : page[i].kind = "image"}
Notices == {i \in 1..Len(page) : page[i].kind = "info"}

\* C7: the candidates are looked up in the order of detect_ticker's list;
\* every lookup before the last one failed, so nothing is looked up after a
\* success; a fundamentals block is rendered exactly when the last lookup
\* succeeded, for that lookup's snapshot, and there is at most one; the panel
\* is done without a block only when every candidate was looked up.
C7_FirstSuccessWins ==
    /\ Len(lookups) <= Len(tickers)
    /\ \A i \in 1..Len(lookups) : lookups[i].ticker = tickers[i]
    /\ \A i \in 1..(Len(lookups) - 1) : ~Succeeded(lookups[i].fund)
    /\ Cardinality(Tables) <= 1
    /\ Tables # {} <=> (lookups # <<>> /\ Succeeded(LastLookup.fund))
    /\ \A i \in Tables : page[i].body = LastLookup.fund[1]
    /\ (ppc = "done" /\ Tables = {}) => Len(lookups) = Len(tickers)
    /\ (lookups # <<>> /\ Succeeded(LastLookup.fund)) => ppc = "done"

\* The second candidate succeeded after the first failed, its block is
\* rendered, and two candidates were never looked up.
C7_Witness ==
    /\ ppc = "done"
    /\ Len(lookups) = 2
    /\ Len(tickers) = 4
    /\ ~Succeeded(lookups[1].fund)
    /\ Succeeded(lookups[2].fund)
    /\ Cardinality(Tables) = 1

\* C8: a title without a token of 2 to 6 capitals leads to no lookup at
\* all; and when the panel is done and no lookup succeeded (there was no
\* candidate, or the provider raised or failed for each), the panel shows
\* the notice and nothing else, the same in both cases, and no chart was
\* asked for.
C8_NoticeWhenNothingResolves ==
    /\ (ppc # "collapsed" /\ TokenWordsFrom(title, 1) = <<>>) =>
            tickers = <<>> /\ lookups = <<>>
    /\ (ppc = "done" /\ \A i \in 1..Len(lookups) : ~Succeeded(lookups[i].fund)) =>
            /\ page = <<[kind |-> "info", body |-> NoTickerMessage]>>
            /\ charts = <<>>

\* The provider raised for one candidate and gave nothing for the other,
\* and the panel is done.
C8_Witness ==
    /\ ppc = "done"
    /\ Len(lookups) = 2
    /\ lookups[1].fund = <<>>
    /\ lookups[2].fund # <<>>
    /\ ~Succeeded(lookups[2].fund)
    /\ Notices # {}

\* The panel is done with no candidate at all and shows the notice.
C8_WitnessNoToken ==
    /\ ppc = "done"
    /\ title = Chars("Markets end flat")
    /\ lookups = <<>>
    /\ Notices # {}

\* C10: get_stock_chart is called at most once per expanded headline, only
\* together with a successful lookup and for its ticker, and the loop is
\* over then (no further candidate); when the chart is unavailable (empty
\* series, or an exception in fetch or render) the panel shows the header
\* and the table of that snapshot (the table inside its fund-card markup)
\* and nothing else: no image, no notice.
C10_ChartOnlyAfterSuccess ==
    /\ Len(charts) <= 1
    /\ charts # <<>> =>
          /\ lookups # <<>>
          /\ Succeeded(LastLookup.fund)
          /\ charts[1].ticker = LastLookup.ticker
          /\ ppc = "done"
          /\ Tables # {}
          /\ Notices = {}
          /\ charts[1].outcome # "prices" =>
                /\ charts[1].chart = <<>>
                /\ Images = {}
                /\ page = <<[kind |-> "header", body |-> CompanyOf(LastLookup.fund[1])],
                             [kind |-> "markup", body |-> "<div class='fund-card'>"],
                             [kind |-> "table", body |-> LastLookup.fund[1]],
                             [kind |-> "markup", body |-> "</div>"]>>
          /\ charts[1].outcome = "prices" =>
                /\ Cardinality(Images) = 1
                /\ \A i \in Images : page[i].body.png = LastLookup.ticker
    /\ (lookups # <<>> /\ Succeeded(LastLookup.fund)) => charts # <<>>

\* The first candidate resolved, its price series was empty, the table is
\* shown without a chart, and candidates remain that were never tried.
C10_Witness ==
    /\ ppc = "done"
    /\ Len(charts) = 1
    /\ charts[1].outcome = "empty"
    /\ Len(lookups) = 1
    /\ Len(tickers) > 1
    /\ Tables # {}
    /\ Images = {}

\* ------------------------------------------------------------------------
\* The whole model: any one of the components at work.

Init == InitNews \/ InitSentiment \/ InitTicker \/ InitFundamentals \/ InitPanel

Next == NextNews \/ NextSentiment \/ NextTicker \/ NextFundamentals \/ NextPanel

Spec == Init /\ [][Next]_vars

=============================================================================
